---- MODULE Spec2Model ----
(***************************************************************************)
(* Model of the batched answer resolver of src/gemini_client.py            *)
(* (ask_gemini_batch): credential rotation, model fallback, response       *)
(* parsing with bounds validation, and the process-wide rotation cursor.   *)
(*                                                                         *)
(* A question is modelled by len(q.options); a credential by its index in  *)
(* the list read from the environment; a model identifier by its position  *)
(* in the priority list.  One step of the model is one blocking library    *)
(* call of the function (reading the environment, constructing a client,   *)
(* one generate_content request) together with all the code that follows   *)
(* it up to the next such call or the return.                              *)
(***************************************************************************)
EXTENDS Integers, Sequences, FiniteSets

\* ---- bounds of the explored inputs ----
MaxKeys  == 2   \* longest credential list read from the environment
MaxN     == 2   \* longest batch of questions
MaxOpts  == 2   \* most options of one question
MaxPairs == 2   \* most items in the "answers" list of one response
MaxEnv   == 4   \* most characters in the text of GEMINI_API_KEYS
MaxText  == 3   \* most characters in the response text read by ask_gemini

\* ---- program constants ----
Rounds    == 20  \* for _ in range(20)
NumModels == 3   \* len(models)

None == -1       \* Python None in a slot of the result

VARIABLES
    current_api_key_idx,  \* module global: the rotation cursor
    pc,                   \* "idle" | "round" | "model" | "returned" | "raised"
    nkeys,                \* len(keys) as read by the running call
    questions,            \* the batch: questions[i] = len(questions[i].options)
    current_idx,          \* local: active credential index
    rnd,                  \* local: outer rounds completed (the loop variable _)
    model,                \* local: position in models of the next request, 1-based
    switch_key,           \* local
    result,               \* the returned list (<<>> until the call returns)
    error,                \* the exception that left the call ("" if none)
    \* ---- history of the running call (not program state) ----
    start_idx,            \* the cursor when the call began
    last,                 \* the last request of the call and its outcome (NoRequest: none yet)
    accepted,             \* the parsed "answers" list the call returned on
    quota_seen,           \* some request of the call raised a quota error
    tried_other,          \* some request of the call went to a model after the first
    \* ---- the two helper functions, each applied to an input of its own ----
    raw_keys,             \* the text of GEMINI_API_KEYS given to _get_api_keys
    keys,                 \* the list _get_api_keys returned for raw_keys
    ask,                  \* the input of main.py's ask_gemini
    ask_ret               \* the value ask_gemini returned for ask

\* The state of the two helper functions: untouched by ask_gemini_batch.
helperVars == <<raw_keys, keys, ask, ask_ret>>

vars == <<current_api_key_idx, pc, nkeys, questions, current_idx, rnd, model,
          switch_key, result, error, start_idx, last, accepted, quota_seen,
          tried_other, helperVars>>

\* ---- inputs ----

\* Batches: every sequence of at most MaxN questions with 1..MaxOpts options.
Batches == UNION {[1..n -> 1..MaxOpts] : n \in 0..MaxN}

\* One item of data["answers"]: ints is FALSE when int(item.get("q")) or
\* int(item.get("answer")) raises (missing key, non-numeric text, not a dict).
\* q and a are the values int() yields; they range just outside every bound.
Items == [ints : {TRUE}, q : 0..(MaxN + 1), a : 0..(MaxOpts + 1)]
            \cup {[ints |-> FALSE, q |-> 0, a |-> 0]}

Payloads == UNION {[1..n -> Items] : n \in 0..MaxPairs}

\* What one generate_content request can do.
\*   empty     : no candidates / content / parts            (line 62)
\*   badjson   : json.loads raises JSONDecodeError           (line 69)
\*   shape     : JSON parsed but data.get / iteration raises (line 73 -> 84)
\*   error     : the request raises, text without quota mark (line 84, 89)
\*   exhausted : the request raises, text has RESOURCE_EXHAUSTED
\*   http429   : the request raises, text has 429
\*   parsed    : JSON object whose "answers" is the list data
FailKinds == {"empty", "badjson", "shape", "error", "exhausted", "http429"}
Outcomes  == [kind : FailKinds, data : {<<>>}] \cup [kind : {"parsed"}, data : Payloads]

\* ask before any ask_gemini input is chosen.
NoAsk == [key |-> <<>>, nopts |-> 0, ok |-> FALSE, text |-> <<>>]

NoRequest == [kind |-> "none", key |-> 0, model |-> 0, rnd |-> 0,
              valid |-> FALSE, invalid |-> FALSE]

\* ---- pure pieces of ask_gemini_batch ----

\* The empty-list test left out.
NoKeysNever(k) == FALSE

\* line 31: if not keys
NoKeys(k) == k = 0

\* lines 33, 72, 97: [None for _ in questions]
AllAbsent(qs) == [i \in 1..Len(qs) |-> None]

\* QIdx without the conversion to 0-based.
QIdxOneBased(item) == item.q

\* line 75: q_idx = int(item.get("q")) - 1   (0-based)
QIdx(item) == item.q - 1

\* InBounds without the lower bound on the option number.
InBoundsNoLower(q_idx, ans, qs) ==
    /\ 0 <= q_idx /\ q_idx < Len(qs)
    /\ ans <= qs[q_idx + 1]

\* line 77: 0 <= q_idx < len(questions) and 1 <= ans <= len(questions[q_idx].options)
InBounds(q_idx, ans, qs) ==
    /\ 0 <= q_idx /\ q_idx < Len(qs)
    /\ 1 <= ans /\ ans <= qs[q_idx + 1]

\* lines 74-80: one iteration of the loop over data["answers"]
ApplyItem(answers, item, qs) ==
    IF item.ints /\ InBounds(QIdx(item), item.a, qs)
    THEN [answers EXCEPT ![QIdx(item) + 1] = item.a]
    ELSE answers

\* ApplyFrom without the per-item try and bounds test: the first bad item
\* raises out of the loop and the answers collected so far are lost.
RECURSIVE ApplyFromAbort(_, _, _, _)
ApplyFromAbort(answers, data, j, qs) ==
    IF j > Len(data) THEN answers
    ELSE IF data[j].ints /\ InBounds(QIdx(data[j]), data[j].a, qs)
    THEN ApplyFromAbort(ApplyItem(answers, data[j], qs), data, j + 1, qs)
    ELSE AllAbsent(qs)

\* lines 73-80: the loop over data["answers"], from item j on
RECURSIVE ApplyFrom(_, _, _, _)
ApplyFrom(answers, data, j, qs) ==
    IF j > Len(data) THEN answers
    ELSE ApplyFrom(ApplyItem(answers, data[j], qs), data, j + 1, qs)

\* lines 72-80: answers after the whole loop
ApplyAnswers(data, qs) == ApplyFrom(AllAbsent(qs), data, 1, qs)

\* AnyAnswered as all(...): a partial answer is not accepted.
AllAnswered(answers) == \A i \in 1..Len(answers) : answers[i] # None

\* AnyAnswered left out: every parsed response is returned.
AnyAnsweredOrNot(answers) == TRUE

\* line 82: any(a is not None for a in answers)
AnyAnswered(answers) == \E i \in 1..Len(answers) : answers[i] # None

\* IsQuota without the 429 test.
IsQuotaNo429(kind) == kind = "exhausted"

\* IsQuota that takes every raised error for a quota signal.
IsQuotaAnyError(kind) == kind \in {"shape", "error", "exhausted", "http429"}

\* line 85: "RESOURCE_EXHAUSTED" in str(e) or "429" in str(e)
IsQuota(kind) == kind \in {"exhausted", "http429"}

\* NextKey that steps over one credential.
NextKeySkip(idx, k) == (idx + 2) % k

\* line 92: (current_idx + 1) % len(keys)
NextKey(idx, k) == (idx + 1) % k

\* StartIdx that begins every call at the first credential.
StartIdxZero(cursor) == 0

\* line 53: current_idx = current_api_key_idx
StartIdx(cursor) == cursor

\* ---- _get_api_keys: text is a sequence of one-character strings ----

Blank  == " "        \* stands for every whitespace character
DQuote == "\""
SQuote == "'"
Comma  == ","

\* Two key characters, blank, both quotes and the separator.
EnvChars == {"a", "b", Blank, DQuote, SQuote, Comma}

\* Every value of GEMINI_API_KEYS of at most MaxEnv characters; the empty
\* text is also what os.getenv(..., "") gives for an unset variable.
EnvTexts == UNION {[1..n -> EnvChars] : n \in 0..MaxEnv}

\* Python None as a value of _coerce_api_key.
NoneKey == <<"None">>

\* str.lstrip(chars) / str.rstrip(chars) / str.strip(chars)
RECURSIVE LStrip(_, _)
LStrip(t, cs) ==
    IF t # <<>> /\ Head(t) \in cs THEN LStrip(Tail(t), cs) ELSE t

RECURSIVE RStrip(_, _)
RStrip(t, cs) ==
    IF t # <<>> /\ t[Len(t)] \in cs THEN RStrip(SubSeq(t, 1, Len(t) - 1), cs) ELSE t

Strip(t, cs) == RStrip(LStrip(t, cs), cs)

\* str.split(","): the text up to the first comma, then the split of the
\* rest; a text without comma (the empty text too) is one segment.
RECURSIVE SplitFrom(_, _, _)
SplitFrom(t, i, cur) ==
    IF i > Len(t) THEN <<cur>>
    ELSE IF t[i] = Comma THEN <<cur>> \o SplitFrom(t, i + 1, <<>>)
    ELSE SplitFrom(t, i + 1, Append(cur, t[i]))

Split(t) == SplitFrom(t, 1, <<>>)

\* lines 14-17: _coerce_api_key
coerce_api_key(val) ==
    IF val = <<>> THEN NoneKey
    ELSE Strip(Strip(Strip(val, {Blank}), {DQuote}), {SQuote})

\* line 23: if k
Truthy(k) == k # NoneKey /\ k # <<>>

\* lines 20-24: _get_api_keys
get_api_keys(raw) ==
    LET raw_split == Split(raw)
        coerced   == [i \in 1..Len(raw_split) |-> coerce_api_key(raw_split[i])]
    IN  SelectSeq(coerced, Truthy)

\* ---- ask_gemini of main.py ----

Digits == {"0", "1", "2", "7"}

\* Some digits, a sign and a character that is neither.
TextChars == Digits \cup {"-", "x"}

\* The text of the first part of the first candidate ("" when absent).
Texts == UNION {[1..n -> TextChars] : n \in 0..MaxText}

\* GEMINI_API_KEY: unset (None), empty, a pair of quotes, a key.
AskKeys == {NoneKey, <<>>, <<DQuote, DQuote>>, <<"a">>}

\* key: GEMINI_API_KEY; nopts: len(options); ok: FALSE when anything in the
\* try of lines 249-258 raises before the text is read (the request, the
\* status, the JSON, the shape of the payload); text: the text read.
AskInputs == [key : AskKeys, nopts : 1..MaxOpts, ok : BOOLEAN, text : Texts]

DigitVal(c) == CASE c = "0" -> 0 [] c = "1" -> 1 [] c = "2" -> 2 [] c = "7" -> 7

\* line 260: re.search(r"(\d+)", str(text)): the leftmost longest run of digits,
\* <<>> when the text has no digit.
RECURSIVE DigitRun(_)
DigitRun(t) ==
    IF t = <<>> \/ Head(t) \notin Digits THEN <<>>
    ELSE <<Head(t)>> \o DigitRun(Tail(t))

RECURSIVE FirstDigits(_)
FirstDigits(t) ==
    IF t = <<>> THEN <<>>
    ELSE IF Head(t) \in Digits THEN DigitRun(t)
    ELSE FirstDigits(Tail(t))

\* line 263: int(m.group(1))
RECURSIVE IntOf(_)
IntOf(ds) ==
    IF ds = <<>> THEN 0
    ELSE 10 * IntOf(SubSeq(ds, 1, Len(ds) - 1)) + DigitVal(ds[Len(ds)])

Min(a, b) == IF a <= b THEN a ELSE b
Max(a, b) == IF a >= b THEN a ELSE b

\* Clamp without the lower bound.
ClampUpperOnly(idx, n) == Min(idx, n)

\* lines 264-268: if idx < 1 or idx > len(options): idx = max(1, min(idx, len(options)))
Clamp(idx, n) == IF idx < 1 \/ idx > n THEN Max(1, Min(idx, n)) ELSE idx

\* lines 222-272: ask_gemini
ask_gemini(a) ==
    LET api_key == IF a.key = NoneKey THEN NoneKey ELSE coerce_api_key(a.key)
        m       == FirstDigits(a.text)
    IN  IF ~Truthy(api_key) THEN 1          \* lines 225-227
        ELSE IF ~a.ok THEN 1                \* lines 270-272
        ELSE IF m = <<>> THEN 1             \* lines 261-262, 270-272
        ELSE Clamp(IntOf(m), a.nopts)

\* ---- history helpers (independent of the definitions above) ----
PairValid(item, qs) ==
    /\ item.ints
    /\ item.q \in 1..Len(qs)
    /\ item.a \in 1..qs[item.q]

HasValid(data, qs)   == \E j \in 1..Len(data) : PairValid(data[j], qs)
HasInvalid(data, qs) == \E j \in 1..Len(data) : ~PairValid(data[j], qs)

Record(o) == [kind |-> o.kind, key |-> current_idx, model |-> model, rnd |-> rnd,
              valid |-> HasValid(o.data, questions),
              invalid |-> HasInvalid(o.data, questions)]

\* ---- steps ----

\* The process before any call of ask_gemini_batch.
Fresh ==
    /\ current_api_key_idx = 0          \* line 11
    /\ nkeys = 0
    /\ questions = <<>>
    /\ current_idx = 0
    /\ rnd = 0
    /\ model = 1
    /\ switch_key = FALSE
    /\ result = <<>>
    /\ error = ""
    /\ start_idx = 0
    /\ last = NoRequest
    /\ accepted = <<>>
    /\ quota_seen = FALSE
    /\ tried_other = FALSE

Init ==
    /\ Fresh
    /\ pc = "idle"
    /\ raw_keys = <<>>
    /\ keys = <<>>
    /\ ask = NoAsk
    /\ ask_ret = 0

\* lines 27-53: a call with batch qs while the environment holds k credentials.
Call ==
    /\ pc \in {"idle", "returned", "raised"}
    /\ \E qs \in Batches, k \in 0..MaxKeys :
        /\ questions' = qs
        /\ nkeys' = k
        /\ IF NoKeys(k)
           THEN /\ pc' = "returned"
                /\ result' = AllAbsent(qs)
                /\ UNCHANGED current_idx
           ELSE /\ pc' = "round"
                /\ result' = <<>>
                /\ current_idx' = StartIdx(current_api_key_idx)
    /\ rnd' = 0
    /\ model' = 1
    /\ switch_key' = FALSE
    /\ error' = ""
    /\ start_idx' = current_api_key_idx
    /\ last' = NoRequest
    /\ accepted' = <<>>
    /\ quota_seen' = FALSE
    /\ tried_other' = FALSE
    /\ UNCHANGED <<current_api_key_idx, helperVars>>

\* lines 55-57, outside every try: keys[current_idx] raises IndexError when the
\* index is past the list; genai.Client(...) returns a client or raises.
BeginRound ==
    /\ pc = "round"
    /\ IF current_idx >= nkeys
       THEN /\ pc' = "raised"
            /\ error' = "IndexError"
            /\ UNCHANGED <<model, switch_key>>
       ELSE \E built \in BOOLEAN :
              IF built
              THEN /\ pc' = "model"
                   /\ model' = 1
                   /\ switch_key' = FALSE
                   /\ UNCHANGED error
              ELSE /\ pc' = "raised"
                   /\ error' = "ClientError"
                   /\ UNCHANGED <<model, switch_key>>
    /\ UNCHANGED <<current_api_key_idx, nkeys, questions, current_idx, rnd, result,
                   start_idx, last, accepted, quota_seen, tried_other, helperVars>>

\* Accept that also moves the cursor on (round-robin on success).
AcceptAndAdvance(answers, data) ==
    /\ pc' = "returned"
    /\ result' = answers
    /\ accepted' = data
    /\ current_api_key_idx' = NextKey(current_idx, nkeys)
    /\ UNCHANGED <<current_idx, rnd, model, switch_key>>

\* line 83: return answers
Accept(answers, data) ==
    /\ pc' = "returned"
    /\ result' = answers
    /\ accepted' = data
    /\ UNCHANGED <<current_api_key_idx, current_idx, rnd, model, switch_key>>

\* lines 59, 64, 70, 90: the for loop moves to the next model
NextModel ==
    /\ pc' = "model"
    /\ model' = model + 1
    /\ UNCHANGED <<current_api_key_idx, current_idx, rnd, switch_key, result, accepted>>

\* EndRound that rotates only when switch_key is set.
EndRoundOnQuota(sw) ==
    /\ current_api_key_idx' = IF sw THEN NextKey(current_idx, nkeys) ELSE current_api_key_idx
    /\ current_idx' = IF sw THEN NextKey(current_idx, nkeys) ELSE current_idx
    /\ switch_key' = sw
    /\ rnd' = rnd + 1
    /\ IF rnd + 1 = Rounds
       THEN /\ pc' = "returned"
            /\ result' = AllAbsent(questions)
       ELSE /\ pc' = "round"
            /\ UNCHANGED result
    /\ UNCHANGED <<model, accepted>>

\* EndRound with the range one round too long.
EndRoundOneMore(sw) ==
    /\ current_api_key_idx' = NextKey(current_idx, nkeys)
    /\ current_idx' = NextKey(current_idx, nkeys)
    /\ switch_key' = sw
    /\ rnd' = rnd + 1
    /\ IF rnd + 1 = Rounds + 1
       THEN /\ pc' = "returned"
            /\ result' = AllAbsent(questions)
       ELSE /\ pc' = "round"
            /\ UNCHANGED result
    /\ UNCHANGED <<model, accepted>>

\* lines 92-95 and, when the range is used up, line 97
EndRound(sw) ==
    /\ current_api_key_idx' = NextKey(current_idx, nkeys)
    /\ current_idx' = NextKey(current_idx, nkeys)
    /\ switch_key' = sw
    /\ rnd' = rnd + 1
    /\ IF rnd + 1 = Rounds
       THEN /\ pc' = "returned"
            /\ result' = AllAbsent(questions)
       ELSE /\ pc' = "round"
            /\ UNCHANGED result
    /\ UNCHANGED <<model, accepted>>

\* lines 60-90: one request and everything up to the next request or return
Handle(o) ==
    LET answers == IF o.kind = "parsed" THEN ApplyAnswers(o.data, questions)
                   ELSE AllAbsent(questions)
    IN  /\ last' = Record(o)
        /\ quota_seen' = (quota_seen \/ o.kind \in {"exhausted", "http429"})
        /\ tried_other' = (tried_other \/ model > 1)
        /\ IF o.kind = "parsed" /\ AnyAnswered(answers)
           THEN Accept(answers, o.data)
           ELSE IF o.kind \in {"shape", "error", "exhausted", "http429"} /\ IsQuota(o.kind)
           THEN EndRound(TRUE)                     \* lines 86-88: break
           ELSE IF model < NumModels
           THEN NextModel
           ELSE EndRound(switch_key)
        /\ UNCHANGED <<nkeys, questions, error, start_idx, helperVars>>

Request ==
    /\ pc = "model"
    /\ \E o \in Outcomes : Handle(o)

Next == Call \/ BeginRound \/ Request

Spec == Init /\ [][Next]_vars

\* ---- _get_api_keys applied to one environment text ----

InitKeys ==
    /\ Fresh
    /\ pc = "env"
    /\ raw_keys \in EnvTexts
    /\ keys = <<>>
    /\ ask = NoAsk
    /\ ask_ret = 0

\* lines 20-24
GetKeys ==
    /\ pc = "env"
    /\ pc' = "keys"
    /\ keys' = get_api_keys(raw_keys)
    /\ UNCHANGED <<current_api_key_idx, nkeys, questions, current_idx, rnd, model,
                   switch_key, result, error, start_idx, last, accepted, quota_seen,
                   tried_other, raw_keys, ask, ask_ret>>

NextKeys == GetKeys

SpecKeys == InitKeys /\ [][NextKeys]_vars

\* ---- ask_gemini applied to one input ----

InitAsk ==
    /\ Fresh
    /\ pc = "ask"
    /\ raw_keys = <<>>
    /\ keys = <<>>
    /\ ask \in AskInputs
    /\ ask_ret = 0

\* lines 222-272
AskGemini ==
    /\ pc = "ask"
    /\ pc' = "asked"
    /\ ask_ret' = ask_gemini(ask)
    /\ UNCHANGED <<current_api_key_idx, nkeys, questions, current_idx, rnd, model,
                   switch_key, result, error, start_idx, last, accepted, quota_seen,
                   tried_other, raw_keys, keys, ask>>

NextAsk == AskGemini

SpecAsk == InitAsk /\ [][NextAsk]_vars

\* ---- properties ----

N == Len(questions)

Absent(seq) == \A i \in DOMAIN seq : seq[i] = None

\* The call has ended, by return or by an exception.
Ended == pc \in {"returned", "raised"}

\* The last request of the call gave a response that parsed and held at
\* least one valid pair.
LastAccepted == last.kind = "parsed" /\ last.valid

\* Position of the last valid pair for question i in data (0 if none).
LastValidFor(data, i, qs) ==
    LET js == {j \in 1..Len(data) : PairValid(data[j], qs) /\ data[j].q = i}
    IN  IF js = {} THEN 0 ELSE CHOOSE j \in js : \A k \in js : k <= j

\* The result the valid pairs of data alone determine.
Expected(data, qs) ==
    [i \in 1..Len(qs) |->
        IF LastValidFor(data, i, qs) = 0 THEN None
        ELSE data[LastValidFor(data, i, qs)].a]

\* C1: every returned array has exactly one entry per input question, in
\* input order: its length is N, and a filled entry i carries the option
\* number of a pair of the accepted response that names question i.
C1_ShapeAndOrder ==
    pc = "returned" =>
        /\ DOMAIN result = 1..N
        /\ \A i \in 1..N : result[i] # None =>
              \E j \in 1..Len(accepted) :
                 accepted[j].ints /\ accepted[j].q = i /\ accepted[j].a = result[i]

C1_Witness ==
    /\ pc = "returned" /\ N = 2
    /\ result[1] = None /\ result[2] # None

\* C2: every non-absent entry i of a returned array is an option number of
\* question i: 1 <= entry <= len(questions[i].options).
C2_IndexValidity ==
    pc = "returned" =>
        \A i \in DOMAIN result :
            result[i] # None => (result[i] >= 1 /\ result[i] <= questions[i])

\* A returned answer for a one-option question from a response that also
\* proposed option 2 for it (in range for the other question only) and so
\* was filled from the pair that is in range.
C2_Witness ==
    /\ pc = "returned" /\ N = 2 /\ last.invalid
    /\ questions[1] = 1 /\ questions[2] = 2
    /\ result[1] = 1 /\ result[2] = None
    /\ \E j \in 1..Len(accepted) :
          accepted[j].ints /\ accepted[j].q = 1 /\ accepted[j].a = 2

\* C3: with credentials present, a call in which no response is accepted
\* ends by returning the all-absent array of length N after at most 20
\* rounds.
C3_AllFailReturnsAbsent ==
    (Ended /\ nkeys > 0 /\ ~LastAccepted) =>
        /\ pc = "returned"
        /\ result = [i \in 1..N |-> None]
        /\ rnd <= Rounds

\* C4: no call ends with an exception reaching the caller.
C4_NeverRaises == pc # "raised"

\* C5: a call that reads an empty credential list returns the all-absent
\* array of length N, has issued no request and has left the cursor as it
\* found it.
C5_EmptyCredentials ==
    (nkeys = 0 /\ pc # "idle") =>
        /\ pc = "returned"
        /\ result = [i \in 1..N |-> None]
        /\ last = NoRequest
        /\ current_api_key_idx = start_idx

C5_Witness ==
    /\ nkeys = 0 /\ pc = "returned" /\ N = 2
    /\ current_api_key_idx = 1

\* C6: a call with an empty batch issues no request.
C6_EmptyBatchNoRequest == (pc # "idle" /\ N = 0) => last = NoRequest

\* C7: a response with at least one valid pair ends the call at once: the
\* call has returned, the request that brought the response is the last one
\* of the call, and the filled slots are exactly the questions that have a
\* valid pair.
C7_PartialAcceptance ==
    LastAccepted =>
        /\ pc = "returned"
        /\ last.rnd = rnd /\ last.model = model /\ last.key = current_idx
        /\ DOMAIN result = 1..N
        /\ \A i \in 1..N :
              (result[i] # None) <=>
              (\E j \in 1..Len(accepted) :
                  PairValid(accepted[j], questions) /\ accepted[j].q = i)

C7_Witness ==
    /\ LastAccepted /\ pc = "returned" /\ N = 2
    /\ result[1] # None /\ result[2] = None
    /\ last.model = 2 /\ last.rnd = 1

\* C8: a response that holds an out-of-range (or unreadable) pair is still
\* used: that pair fills no slot, and when the response also holds valid
\* pairs the call returns exactly what the valid pairs alone determine.
C8_OutOfRangeDiscard ==
    (last.kind = "parsed" /\ last.invalid) =>
        /\ last.valid =>
              /\ pc = "returned"
              /\ result = Expected(accepted, questions)
        /\ ~last.valid =>
              /\ accepted = <<>>
              /\ Absent(result)

C8_Witness ==
    /\ last.kind = "parsed" /\ last.invalid /\ last.valid
    /\ pc = "returned" /\ N = 2 /\ result[2] # None
    /\ \E j \in 1..Len(accepted) : accepted[j].ints /\ accepted[j].q = N + 1

\* C9: after a request under credential c failed with a quota signal, the
\* round of that request is over (no further model under c in it), the
\* cursor is (c + 1) mod K, and the next request, if any, goes to the first
\* model under credential (c + 1) mod K.
C9_QuotaRotation ==
    last.kind \in {"exhausted", "http429"} =>
        /\ rnd = last.rnd + 1
        /\ current_api_key_idx = (last.key + 1) % nkeys
        /\ pc \in {"round", "model"} => current_idx = (last.key + 1) % nkeys
        /\ pc = "model" => model = 1

C9_Witness ==
    /\ last.kind = "http429" /\ last.model = 2 /\ last.key = 1
    /\ nkeys = 2 /\ pc = "model" /\ current_idx = 0

\* C10 as stated: a call in which no request gave a quota signal returns
\* with the cursor it started with.
C10_CursorOnlyOnQuota ==
    (pc = "returned" /\ ~quota_seen) => current_api_key_idx = start_idx

\* C10 amended: the cursor changes only in a step that ends an outer round
\* without an accepted response, so a call that returns before any round has
\* ended that way (or that read no credentials) leaves the cursor as it
\* found it.
C10_CursorOnlyOnRoundEnd ==
    /\ [](pc = "returned" /\ rnd = 0 => current_api_key_idx = start_idx)
    /\ [][current_api_key_idx' # current_api_key_idx =>
             /\ pc = "model" /\ rnd' = rnd + 1
             /\ ~(last'.kind = "parsed" /\ last'.valid)
             /\ current_api_key_idx' = (current_idx + 1) % nkeys]_vars

C10_Witness ==
    /\ pc = "returned" /\ LastAccepted /\ rnd = 0 /\ last.model = 3
    /\ nkeys = 2 /\ start_idx = 1 /\ current_api_key_idx = 1

\* C11: one bad model/credential pair does not use up the retry budget: a
\* call with a single credential never gives up (returns without an accepted
\* response) having sent every one of its requests to the first model only;
\* when the first model keeps answering with a quota signal the call gets to
\* the second model.
C11_ReachesSecondModel ==
    (pc = "returned" /\ nkeys = 1 /\ N > 0 /\ last # NoRequest /\ ~LastAccepted)
        => tried_other

\* C12: the cursor outlives the call.  Every request of the first round of a
\* call goes to the credential the cursor named when the call began, no step
\* between two calls moves the cursor, and a call with two credentials that
\* began at 0, met a quota signal there and was answered under credential 1
\* leaves the cursor at 1.
C12_CursorPersists ==
    /\ []((last # NoRequest /\ last.rnd = 0) => last.key = start_idx)
    /\ []((pc = "returned" /\ LastAccepted /\ nkeys = 2 /\ start_idx = 0
             /\ rnd = 1 /\ quota_seen) => current_api_key_idx = 1)
    /\ [][(pc = "idle" \/ pc = "returned" \/ pc = "raised") =>
             (/\ current_api_key_idx' = current_api_key_idx
              /\ start_idx' = current_api_key_idx
              /\ (pc' = "round" => current_idx' = current_api_key_idx))]_vars

\* The first request of a call that found the cursor at 1.
C12_Witness ==
    /\ last # NoRequest /\ last.rnd = 0 /\ last.model = 1
    /\ start_idx = 1 /\ last.key = 1 /\ nkeys = 2

\* The key characters of a text, in order.
RECURSIVE KeyChars(_)
KeyChars(t) ==
    IF t = <<>> THEN <<>>
    ELSE IF Head(t) \in {"a", "b"} THEN <<Head(t)>> \o KeyChars(Tail(t))
    ELSE KeyChars(Tail(t))

RECURSIVE Concat(_)
Concat(ss) == IF ss = <<>> THEN <<>> ELSE Head(ss) \o Concat(Tail(ss))

\* C13: every entry _get_api_keys returns is non-empty and neither begins
\* nor ends with whitespace or a quote character, and the entries keep the
\* order of the input (the key characters of the entries, read in order,
\* are those of the input).
C13_KeysTrimmed ==
    pc = "keys" =>
        /\ \A i \in 1..Len(keys) :
              /\ keys[i] # <<>>
              /\ keys[i][1] \notin {Blank, DQuote, SQuote}
              /\ keys[i][Len(keys[i])] \notin {Blank, DQuote, SQuote}
        /\ KeyChars(Concat(keys)) = KeyChars(raw_keys)

\* The last request of the call failed softly: empty, unparseable or
\* mis-shaped response, a parsed response without a valid pair, or an error
\* that is no quota signal.
SoftFailed ==
    \/ last.kind \in {"empty", "badjson", "shape", "error"}
    \/ (last.kind = "parsed" /\ ~last.valid)

QuotaFailed == last.kind \in {"exhausted", "http429"}

\* C14: within a round the credential is fixed and the models are asked in
\* priority order from the first: a round's first request goes to model 1,
\* a soft failure on model m < M is followed by model m + 1 under the same
\* credential in the same round, and a round is left (and with it the
\* credential) only after its last model or a quota signal.
C14_SoftFailureOrder ==
    /\ (pc = "model" /\ (last = NoRequest \/ last.rnd # rnd)) => model = 1
    /\ (SoftFailed /\ last.model < NumModels) =>
          /\ pc = "model" /\ rnd = last.rnd
          /\ model = last.model + 1
          /\ current_idx = last.key
    /\ (last # NoRequest /\ last.rnd = rnd /\ pc # "raised") => current_idx = last.key
    /\ (last # NoRequest /\ last.rnd # rnd) =>
          (last.model = NumModels \/ QuotaFailed)

C14_Witness ==
    /\ last.kind = "error" /\ last.model = 2 /\ last.rnd = 1 /\ last.key = 1
    /\ pc = "model" /\ model = 3 /\ current_idx = 1 /\ nkeys = 2

\* C15: every round that ends without an accepted response, by a quota
\* signal or after the last model, moves the cursor one position on modulo
\* the credential count; the process-wide cursor holds that advance at once
\* (it equals the active index throughout the call), and an answer accepted
\* in a later round does not take it back.
C15_RoundEndAdvances ==
    /\ [][(pc = "model" /\ ~LastAccepted' /\ (model = NumModels \/ QuotaFailed')) =>
             (/\ rnd' = rnd + 1
              /\ current_api_key_idx' = (current_api_key_idx + 1) % nkeys)]_vars
    /\ [][(pc = "model" /\ LastAccepted') =>
             (rnd' = rnd /\ current_api_key_idx' = current_api_key_idx)]_vars
    /\ [](pc \in {"round", "model", "returned"} /\ nkeys > 0
             => current_api_key_idx = current_idx)

\* Two rounds of soft failures only, then an accepted answer: the cursor
\* stays two positions on (back at its start with two credentials).
C15_Witness ==
    /\ pc = "returned" /\ LastAccepted /\ rnd = 2 /\ ~quota_seen
    /\ nkeys = 2 /\ start_idx = 1 /\ current_api_key_idx = 1

\* C16: with credentials present, a returned array holds a non-absent entry
\* exactly when the call received a response with a valid pair; a parsed
\* response without a valid pair is not returned, and the all-absent array
\* comes back only once all 20 rounds are used up.
C16_FilledIffAccepted ==
    /\ (pc = "returned" /\ nkeys > 0) =>
          /\ (\E i \in DOMAIN result : result[i] # None) <=> LastAccepted
          /\ Absent(result) => (rnd = Rounds /\ accepted = <<>>)
    /\ (last.kind = "parsed" /\ ~last.valid) =>
          /\ accepted = <<>>
          /\ pc = "returned" => rnd = Rounds

C16_Witness ==
    /\ pc = "returned" /\ nkeys > 0 /\ N = 2 /\ rnd = Rounds
    /\ last.kind = "parsed" /\ last.invalid /\ ~last.valid
    /\ Absent(result)

\* C17: whenever a round is about to select its credential, the active
\* index is a valid index into the credential list the call read.
C17_IndexInRange == pc = "round" => (0 <= current_idx /\ current_idx < nkeys)

\* C18: a call with K >= 1 credentials that began with the cursor at s and
\* returns an accepted answer in round r leaves the cursor at
\* (s + r - 1) mod K (unchanged for r = 1); a call that uses up all rounds
\* leaves it at (s + 20) mod K.
C18_CursorAccounting ==
    (pc = "returned" /\ nkeys >= 1) =>
        IF LastAccepted
        THEN /\ rnd + 1 \in 1..Rounds
             /\ current_api_key_idx = (start_idx + (rnd + 1) - 1) % nkeys
             /\ rnd + 1 = 1 => current_api_key_idx = start_idx
        ELSE /\ rnd = Rounds
             /\ current_api_key_idx = (start_idx + 20) % nkeys

C18_Witness ==
    /\ pc = "returned" /\ LastAccepted /\ rnd + 1 = 4
    /\ nkeys = 2 /\ start_idx = 0 /\ current_api_key_idx = 1

\* C19: a call issues at most 20 x M requests, at most M in a round and at
\* most one per model in a round, one at a time.  Every request is made in
\* a step of its own, at a round below 20 and a model position in 1..M, and
\* the (round, model) position of a request is strictly after that of the
\* request before it, so no position is asked twice and the number of
\* requests made so far is at most round x M + model <= 20 x M.
C19_RequestBudget ==
    /\ [](last # NoRequest =>
             /\ last.rnd \in 0..(Rounds - 1)
             /\ last.model \in 1..NumModels
             /\ last.rnd * NumModels + last.model <= 20 * 3)
    /\ [][(pc = "model") =>
             (/\ last'.rnd = rnd /\ last'.model = model
              /\ \/ last = NoRequest
                 \/ last.rnd < last'.rnd
                 \/ (last.rnd = last'.rnd /\ last'.model = last.model + 1))]_vars
    /\ [][(last' # last) => (pc = "model" \/ last' = NoRequest)]_vars

\* The sixtieth request of a call in which every round asked all models.
C19_Witness ==
    /\ last.rnd = 19 /\ last.model = 3 /\ ~quota_seen /\ pc = "returned"
    /\ nkeys = 2 /\ N = 2

\* GEMINI_API_KEY is unset or holds nothing but blanks and quotes.
AskKeyMissing ==
    \/ ask.key = NoneKey
    \/ \A i \in 1..Len(ask.key) : ask.key[i] \in {Blank, DQuote, SQuote}

AskNoInteger == \A i \in 1..Len(ask.text) : ask.text[i] \notin Digits

\* C20: for a non-empty option list ask_gemini returns an integer in
\* 1..len(options): 1 when the key is missing, when the request fails or
\* when the response text holds no integer, and otherwise the first integer
\* of the text, brought to the nearest bound when it is out of range.
C20_AskGeminiInRange ==
    pc = "asked" =>
        /\ ask_ret \in 1..ask.nopts
        /\ (AskKeyMissing \/ ~ask.ok \/ AskNoInteger) => ask_ret = 1
        /\ ~(AskKeyMissing \/ ~ask.ok \/ AskNoInteger) =>
              LET v == IntOf(FirstDigits(ask.text))
              IN  /\ v < 1 => ask_ret = 1
                  /\ v > ask.nopts => ask_ret = ask.nopts
                  /\ v \in 1..ask.nopts => ask_ret = v

\* "x17" for a two-option question: 17 is brought down to 2.
C20_Witness ==
    /\ pc = "asked" /\ ask.ok /\ ask.key = <<"a">> /\ ask.nopts = 2
    /\ ask.text = <<"x", "1", "7">> /\ ask_ret = 2

====
